---- MODULE Spec2Model ----
(***************************************************************************)
(* SimpleDraggable (src/SImpleDraggable.js): one instance of the class,    *)
(* the element it moves, the window it lives in, the localStorage entry    *)
(* under its id and the storage events other views send it.                *)
(*                                                                         *)
(* Pixels are integers.  A JavaScript number is an integer or NaN; a field *)
(* that was never assigned (undefined) is NaN as well, since every use of  *)
(* such a field is arithmetic or a comparison, where undefined acts as NaN.*)
(***************************************************************************)
EXTENDS Integers, Sequences, FiniteSets, TLC

VARIABLES
    inst,          \* the fields of the SimpleDraggable instance (this.*)
    element,       \* the moved element: layout box, dataset, style.translate
    win,           \* the window: viewport size, document content, scroll
    localStorage,  \* the text stored under this.id (Absent: no entry)
    listeners,     \* which of the four bound listeners are attached
    pending,       \* storage events sent to this window, not yet dispatched
    lastOp,        \* the operation or event that produced this state
    hist,          \* history: the drag session in progress, the inputs so far
    views          \* the views of one page that share the id and the store,
                   \* when two of them are followed together (<<>> otherwise)

vars ==
    <<inst, element, win, localStorage, listeners, pending, lastOp, hist, views>>

---------------------------------------------------------------------------
(* Bounds of the model                                                     *)

\* storage events that may wait for dispatch at the same time
MaxPending == 1
\* presses that start a session, entries other views write, calls of stop()
\* on an enabled instance, resizes of the window and changes of
\* dataset.draggable, counted together
MaxInputs == 2

---------------------------------------------------------------------------
(* JavaScript numbers                                                      *)

\* NaN, and undefined where a number is read
NaN == -999999

Add(a, b) == IF a = NaN \/ b = NaN THEN NaN ELSE a + b
Sub(a, b) == IF a = NaN \/ b = NaN THEN NaN ELSE a - b
\* a < b: false as soon as one side is NaN
Lt(a, b) == a # NaN /\ b # NaN /\ a < b
Abs(a) == IF a = NaN THEN NaN ELSE IF a < 0 THEN -a ELSE a
Max2(a, b) == IF a < b THEN b ELSE a

---------------------------------------------------------------------------
(* Serialized offsets: the text kept in dataset.translate, in localStorage *)
(* and in StorageEvent.newValue.  A text is <<kind, x, y>>:                *)
(*   "absent"  no value (null from getItem / newValue, undefined dataset)  *)
(*   "garbage" text JSON.parse rejects                                     *)
(*   "null"    the text  null                                              *)
(*   "scalar"  the text of a non-zero number, e.g.  5                      *)
(*   "json"    {"x":X,"y":Y} as JSON.stringify writes it; a NaN component  *)
(*             stands for a key the object does not have                   *)
(*   "tmpl"    {"x":X, "y":Y} as the template literal writes it; with a    *)
(*             NaN component the text holds the word NaN                   *)

Absent == <<"absent", NaN, NaN>>
Garbage == <<"garbage", NaN, NaN>>
NullText == <<"null", NaN, NaN>>
ScalarText == <<"scalar", NaN, NaN>>

\* JSON.stringify({ x: x, y: y })
Stringify(x, y) == <<"json", x, y>>
\* `{"x":${x}, "y":${y}}`
Template(x, y) == <<"tmpl", x, y>>
\* the literal `{"x":0,"y":0}`
ZeroText == <<"json", 0, 0>>

\* JSON.parse(text): <<"throw" | "null" | "scalar" | "object", x, y>>
JSONparse(text) ==
    CASE text[1] = "garbage" -> <<"throw", NaN, NaN>>
      [] text[1] = "absent" -> <<"throw", NaN, NaN>>
      [] text[1] = "null" -> <<"null", NaN, NaN>>
      [] text[1] = "scalar" -> <<"scalar", NaN, NaN>>
      [] text[1] = "json" -> <<"object", text[2], text[3]>>
      [] text[1] = "tmpl" ->
            IF text[2] = NaN \/ text[3] = NaN
            THEN <<"throw", NaN, NaN>>
            ELSE <<"object", text[2], text[3]>>

\* !text : null, undefined and the empty string are falsy
Falsy(text) == text[1] = "absent"

---------------------------------------------------------------------------
(* The page the instance is constructed in                                 *)

\* the element's layout: natural (untranslated) left/top in the document,
\* border-box size, the width of each of its four borders, its CSS position
Pages ==
    { [left |-> 0, top |-> 0, width |-> 450, height |-> 325,
       border |-> 0, position |-> "fixed"],
      [left |-> 350, top |-> 275, width |-> 430, height |-> 305,
       border |-> 10, position |-> "absolute"],
      [left |-> 0, top |-> 0, width |-> 450, height |-> 325,
       border |-> 0, position |-> "static"] }

\* sizes the viewport takes; for the fixed element the thresholds are
\* (350, 275) and, the viewport being smaller than the element, (-350, -275)
Viewports == { <<800, 600>>, <<100, 50>> }

\* size of the document's content (body offsetWidth/offsetHeight)
Content == <<800, 600>>

\* scroll offsets of the window
Scrolls == { <<0, 0>> }

\* pointer positions of mouse events
Pointers == { <<0, 0>>, <<350, 275>> }

\* well-formed offsets other views store
Offsets == { <<700, 550>>, <<350, 275>> }

\* values of StorageEvent.newValue and of a pre-existing store entry
Payloads ==
    { Absent, Garbage, NullText, ScalarText, <<"json", NaN, 275>> }
    \cup { Stringify(o[1], o[2]) : o \in Offsets }

\* what the store holds under the id before the instance is constructed
Stored == { Absent, Stringify(700, 550) }

\* values of dataset.draggable external code sets
Flags == { "undefined", "false" }

---------------------------------------------------------------------------
(* Host queries                                                            *)

\* getViewport(): visualViewport and inner size are the same pair here
getViewport(w) == [x |-> w.viewport[1], y |-> w.viewport[2]]

\* the six metrics Math.max ranges over, per axis k (1: width, 2: height)
docMetrics(w, k) ==
    { Max2(w.content[k], w.viewport[k]),   \* body.scroll*
      Max2(w.content[k], w.viewport[k]),   \* documentElement.scroll*
      w.content[k],                        \* body.offset*
      w.content[k],                        \* documentElement.offset*
      w.content[k],                        \* body.client*
      w.viewport[k] }                      \* documentElement.client*

SetMax(S) == CHOOSE m \in S : \A n \in S : n <= m

getDocDimensions(w) ==
    [x |-> SetMax(docMetrics(w, 1)) - w.scroll[1],
     y |-> SetMax(docMetrics(w, 2)) - w.scroll[2]]

\* element.getBoundingClientRect(): the border box, moved by style.translate,
\* in viewport coordinates
getBoundingClientRect(el, w) ==
    LET sx == IF el.position = "fixed" THEN 0 ELSE w.scroll[1]
        sy == IF el.position = "fixed" THEN 0 ELSE w.scroll[2]
    IN  [left |-> el.left + el.style[1] - sx,
         top |-> el.top + el.style[2] - sy,
         width |-> el.width, height |-> el.height]


---------------------------------------------------------------------------
(* The class.  A method is an operator from the program state s it runs in *)
(* (s.inst: this.*, s.element, s.localStorage, s.listeners, s.threw: an    *)
(* exception left the method) to the state it leaves; w is the window.     *)
(* The fields a method assigns and only that same call reads afterwards    *)
(* (styles, elementRect, dimensions, pos_1, pos_2) are locals of its       *)
(* operator; s.inst holds the fields that carry a value from one call to   *)
(* the next.                                                               *)

\* the fields of an object on which the constructor has not run
NoInstance ==
    [constructed |-> "no", store |-> FALSE, enabled |-> FALSE,
     position |-> "undefined", borderH |-> NaN, borderV |-> NaN,
     thresholdX |-> NaN, thresholdY |-> NaN,
     pos_3 |-> NaN, pos_4 |-> NaN,
     translateX |-> NaN, translateY |-> NaN,
     offsetLeft |-> NaN, offsetTop |-> NaN]

NoListeners ==
    [mousedown |-> FALSE, storage |-> FALSE, mousemove |-> FALSE, mouseup |-> FALSE]

\* line 80 / line 163
containerSize(position, w) ==
    IF position = "fixed" THEN getViewport(w) ELSE getDocDimensions(w)

_setProperties(s, w) ==
    LET ls == IF ~s.inst.store THEN Absent ELSE s.localStorage
        position == s.element.position
        rect == getBoundingClientRect(s.element, w)
        dim == containerSize(position, w)
        bH == s.element.border + s.element.border
        bV == s.element.border + s.element.border
    IN  IF s.inst.enabled /\ position # "fixed" /\ position # "absolute"
        THEN [s EXCEPT !.localStorage = ls, !.inst.position = position,
                       !.threw = TRUE]
        ELSE [s EXCEPT
                !.localStorage = ls,
                !.element.translate = ZeroText,
                !.inst = [s.inst EXCEPT
                    !.position = position,
                    !.borderH = bH,
                    !.borderV = bV,
                    !.thresholdX = dim.x - (rect.width + bH),
                    !.thresholdY = dim.y - (rect.height + bV),
                    !.pos_3 = 0, !.pos_4 = 0,
                    !.translateX = 0, !.translateY = 0,
                    !.offsetLeft = rect.left,
                    !.offsetTop = rect.top]]

\* _getThresholds without the test of the right and bottom bounds
_getThresholds_lowerOnly(s, top, left) ==
    [x |-> IF Lt(left, 0) THEN Abs(left) ELSE 0,
     y |-> IF Lt(top, 0) THEN Abs(top) ELSE 0]

_getThresholds(s, top, left) ==
    [x |-> IF Lt(Sub(s.inst.thresholdX, left), 0)
           THEN Sub(s.inst.thresholdX, left)
           ELSE IF Lt(left, 0) THEN Abs(left) ELSE 0,
     y |-> IF Lt(Sub(s.inst.thresholdY, top), 0)
           THEN Sub(s.inst.thresholdY, top)
           ELSE IF Lt(top, 0) THEN Abs(top) ELSE 0]

\* data is a parsed value that is not "throw"; the result is the state with
\* offsetLeft and offsetTop assigned, and the corrected pos
_getPos(s, w, data) ==
    LET pos0 == IF data[1] = "null" THEN [x |-> 0, y |-> 0]
                ELSE [x |-> data[2], y |-> data[3]]
        rect == getBoundingClientRect(s.element, w)
        s1 == [s EXCEPT !.inst.offsetLeft = Sub(rect.left, pos0.x),
                        !.inst.offsetTop = Sub(rect.top, pos0.y)]
        threshold == _getThresholds(s1, Add(pos0.y, s1.inst.offsetTop),
                                        Add(pos0.x, s1.inst.offsetLeft))
    IN  [s |-> s1,
         pos |-> [x |-> Add(pos0.x, threshold.x), y |-> Add(pos0.y, threshold.y)]]

\* element.style.translate = value: a value with NaN in it is no valid CSS
\* and leaves the property as it was
setStyleTranslate(el, x, y) ==
    IF x = NaN \/ y = NaN THEN el ELSE [el EXCEPT !.style = <<x, y>>]

\* _updatePos without the early return of line 273: JSON.parse(null) is null
_updatePos_noEarlyReturn(s, w, storedData) ==
    LET parsed == IF Falsy(storedData) THEN <<"null", NaN, NaN>>
                  ELSE JSONparse(storedData)
        data == IF parsed[1] = "throw" THEN <<"object", 0, 0>> ELSE parsed
        r == _getPos(s, w, data)
        el1 == [r.s.element EXCEPT !.translate = Template(r.pos.x, r.pos.y)]
        el2 == IF data[1] = "null"
               THEN [el1 EXCEPT !.style = <<0, 0>>]
               ELSE setStyleTranslate(el1, r.pos.x, r.pos.y)
    IN  [r.s EXCEPT !.element = el2]

_updatePos(s, w, storedData) ==
    IF Falsy(storedData) THEN s
    ELSE LET parsed == JSONparse(storedData)
             data == IF parsed[1] = "throw" THEN <<"object", 0, 0>> ELSE parsed
             r == _getPos(s, w, data)
             el1 == [r.s.element EXCEPT !.translate = Template(r.pos.x, r.pos.y)]
             el2 == IF data[1] = "null"
                    THEN [el1 EXCEPT !.style = <<0, 0>>]
                    ELSE setStyleTranslate(el1, r.pos.x, r.pos.y)
         IN  [r.s EXCEPT !.element = el2]

_restorePos(s, w) == _updatePos(s, w, s.localStorage)

\* _onStorage that also detaches the move listener
_onStorage_endsSession(s, w, e) ==
    IF s.element.draggable = "false" THEN s
    ELSE IF e.key = "id"
         THEN [_updatePos(s, w, e.newValue) EXCEPT !.listeners.mousemove = FALSE]
         ELSE s

_onStorage(s, w, e) ==
    IF s.element.draggable = "false" THEN s
    ELSE IF e.key = "id" THEN _updatePos(s, w, e.newValue) ELSE s

\* the early returns of _mousedown without the test of dataset.draggable
mousedownAccepted_ignoresFlag(s, e) ==
    /\ e.target = "dragElement"
    /\ e.button = 0

\* e: [target, button, clientX, clientY]; the three early returns of the handler
mousedownAccepted(s, e) ==
    /\ s.element.draggable # "false"
    /\ e.target = "dragElement"
    /\ e.button = 0

_mousedown(s, w, e) ==
    IF ~mousedownAccepted(s, e) THEN s
    ELSE
    LET rect == getBoundingClientRect(s.element, w)
        parsed == IF Falsy(s.element.translate) THEN <<"throw", NaN, NaN>>
                  ELSE JSONparse(s.element.translate)
        \* translate.x / translate.y; null has no properties
        translate == IF parsed[1] = "throw" THEN [x |-> 0, y |-> 0]
                     ELSE [x |-> parsed[2], y |-> parsed[3]]
        s1 == [s EXCEPT !.inst.pos_3 = e.clientX, !.inst.pos_4 = e.clientY]
        dim == containerSize(s.inst.position, w)
    IN  IF parsed[1] = "null" THEN [s1 EXCEPT !.threw = TRUE]
        ELSE [s1 EXCEPT
                !.inst.translateX = translate.x,
                !.inst.translateY = translate.y,
                !.inst.offsetLeft = Sub(rect.left, translate.x),
                !.inst.offsetTop = Sub(rect.top, translate.y),
                !.inst.thresholdX = Sub(dim.x, Add(rect.width, s.inst.borderH)),
                !.inst.thresholdY = Sub(dim.y, Add(rect.height, s.inst.borderV)),
                !.listeners.mousemove = TRUE,
                !.listeners.mouseup = TRUE]

_drag(s, e) ==
    LET pos_1 == Sub(s.inst.pos_3, e.clientX)
        pos_2 == Sub(s.inst.pos_4, e.clientY)
        tY == Sub(s.inst.translateY, pos_2)
        tX == Sub(s.inst.translateX, pos_1)
        threshold == _getThresholds(s, Add(tY, s.inst.offsetTop),
                                       Add(tX, s.inst.offsetLeft))
        translateY == Add(tY, threshold.y)
        translateX == Add(tX, threshold.x)
    IN  [s EXCEPT
            !.inst.pos_3 = e.clientX, !.inst.pos_4 = e.clientY,
            !.inst.translateY = translateY,
            !.inst.translateX = translateX,
            !.element = setStyleTranslate(s.element, translateX, translateY)]

\* _stopDrag writing to the store whatever this.store is
_stopDrag_alwaysStores(s) ==
    [s EXCEPT
        !.listeners.mousemove = FALSE,
        !.element.translate = Template(s.inst.translateX, s.inst.translateY),
        !.localStorage = Stringify(s.inst.translateX, s.inst.translateY)]

\* _stopDrag that stores the offset and leaves dataset.translate as it was
_stopDrag_noAnnotation(s) ==
    [s EXCEPT
        !.listeners.mousemove = FALSE,
        !.localStorage = IF s.inst.store
                         THEN Stringify(s.inst.translateX, s.inst.translateY)
                         ELSE s.localStorage]

\* _stopDrag that records the zero offset instead of the running translation
_stopDrag_zeroAnnotation(s) ==
    [s EXCEPT
        !.listeners.mousemove = FALSE,
        !.element.translate = ZeroText,
        !.localStorage = IF s.inst.store
                         THEN Stringify(s.inst.translateX, s.inst.translateY)
                         ELSE s.localStorage]

\* _stopDrag that leaves the move listener attached
_stopDrag_keepsMoveListener(s) ==
    [s EXCEPT
        !.element.translate = Template(s.inst.translateX, s.inst.translateY),
        !.localStorage = IF s.inst.store
                         THEN Stringify(s.inst.translateX, s.inst.translateY)
                         ELSE s.localStorage]

_stopDrag(s) ==
    [s EXCEPT
        !.listeners.mousemove = FALSE,
        !.element.translate = Template(s.inst.translateX, s.inst.translateY),
        !.localStorage = IF s.inst.store
                         THEN Stringify(s.inst.translateX, s.inst.translateY)
                         ELSE s.localStorage]

\* removeListeners that forgets the storage listener
removeListeners_keepsStorage(s) ==
    [s EXCEPT !.listeners = [NoListeners EXCEPT !.storage = s.listeners.storage]]

removeListeners(s) == [s EXCEPT !.listeners = NoListeners]

\* stop() that also removes the entry from the store
stop_clearsStore(s) ==
    IF ~s.inst.enabled THEN s
    ELSE LET s1 == removeListeners(s)
         IN  [s1 EXCEPT !.element.translate = ZeroText, !.inst.enabled = FALSE,
                        !.localStorage = Absent]

stop(s) ==
    IF ~s.inst.enabled THEN s
    ELSE LET s1 == removeListeners(s)
         IN  [s1 EXCEPT !.element.translate = ZeroText, !.inst.enabled = FALSE]

start(s, w) ==
    IF s.inst.enabled THEN s
    ELSE LET s1 == _setProperties(s, w)
         IN  IF s1.threw THEN s1
             ELSE LET s2 == _restorePos(s1, w)
                  IN  [s2 EXCEPT !.listeners.mousedown = TRUE,
                                 !.listeners.storage = TRUE,
                                 !.inst.enabled = TRUE]

\* the argument checks of lines 20-37 pass: the handle and the element are
\* elements and the id is the non-empty string "id"
constructor(s, w, store, enabled) ==
    LET s0 == [s EXCEPT !.inst.store = store, !.inst.enabled = enabled]
        s1 == IF enabled THEN _setProperties(s0, w) ELSE s0
        s2 == IF enabled /\ ~s1.threw
              THEN [_restorePos(s1, w) EXCEPT !.listeners.mousedown = TRUE]
              ELSE s1
    IN  IF s2.threw THEN [s2 EXCEPT !.inst.constructed = "threw"]
        ELSE [s2 EXCEPT !.inst.constructed = "yes", !.listeners.storage = TRUE]

---------------------------------------------------------------------------
(* The state machine                                                       *)

\* the program state a method or handler starts in
Here ==
    [inst |-> inst, element |-> element, localStorage |-> localStorage,
     listeners |-> listeners, threw |-> FALSE]

Commit(s) ==
    /\ inst' = s.inst
    /\ element' = s.element
    /\ localStorage' = s.localStorage
    /\ listeners' = s.listeners

\* lastOp: the operation, whether its body ran (for construct: whether
\* enabled was true; for an event: whether the handler got past its early
\* returns), whether it threw, and for a storage event its key and newValue,
\* for construct and start the text the store held when they were called
Op(name, ran, threw, key, text) ==
    [op |-> name, ran |-> ran, threw |-> threw, key |-> key, text |-> text]

\* hist.session: the translation the press loaded, the translation the last
\* mousemove of the session rendered (NaN: none yet), and whether no storage
\* event was handled since the press, and whether the press was the operation
\* right after a release

NoSession ==
    [start |-> <<NaN, NaN>>, rendered |-> <<NaN, NaN>>, pure |-> TRUE,
     afterRelease |-> FALSE]

Live == inst.constructed = "yes"

Init ==
    /\ inst = NoInstance
    /\ \E page \in Pages :
         element = [left |-> page.left, top |-> page.top, width |-> page.width,
                    height |-> page.height, border |-> page.border,
                    position |-> page.position,
                    translate |-> Absent, draggable |-> "undefined",
                    style |-> <<0, 0>>]
    /\ \E v \in Viewports, sc \in Scrolls :
         win = [viewport |-> v, content |-> Content, scroll |-> sc]
    /\ localStorage \in Stored
    /\ listeners = NoListeners
    /\ pending = <<>>
    /\ lastOp = Op("init", FALSE, FALSE, "", Absent)
    /\ hist = [session |-> NoSession, inputs |-> 0]
    /\ views = <<>>

\* new SimpleDraggable("id", dragElement, element, store, enabled)
Construct ==
    /\ inst.constructed = "no"
    /\ \E store \in BOOLEAN, enabled \in BOOLEAN :
         LET s == constructor(Here, win, store, enabled)
         IN  /\ Commit(s)
             /\ lastOp' = Op("construct", enabled, s.threw, "id", localStorage)
    /\ UNCHANGED <<win, pending, hist, views>>

\* a mousedown event reaches the listener on dragElement
MouseDown ==
    /\ Live
    /\ listeners.mousedown
    /\ \E target \in {"dragElement", "child"}, button \in {0, 2}, p \in Pointers :
         LET e == [target |-> target, button |-> button,
                   clientX |-> p[1], clientY |-> p[2]]
             ran == mousedownAccepted(Here, e)
             s == _mousedown(Here, win, e)
         IN  /\ ran => hist.inputs < MaxInputs
             /\ Commit(s)
             /\ lastOp' = Op("mousedown", ran, s.threw, "", Absent)
             /\ hist' = IF ran /\ ~s.threw
                        THEN [hist EXCEPT !.inputs = @ + 1, !.session =
                                [start |-> <<s.inst.translateX, s.inst.translateY>>,
                                 rendered |-> <<NaN, NaN>>, pure |-> TRUE,
                                 afterRelease |-> lastOp.op = "mouseup"]]
                        ELSE hist
    /\ UNCHANGED <<win, pending, views>>

\* a mousemove event reaches the listener on the window
MouseMove ==
    /\ Live
    /\ listeners.mousemove
    /\ \E p \in Pointers :
         LET e == [clientX |-> p[1], clientY |-> p[2]]
             s == _drag(Here, e)
         IN  /\ Commit(s)
             /\ lastOp' = Op("mousemove", TRUE, FALSE, "", Absent)
             /\ hist' = [hist EXCEPT !.session.rendered =
                                <<s.inst.translateX, s.inst.translateY>>]
    /\ UNCHANGED <<win, pending, views>>

\* a mouseup event reaches the listener on the window, which was added
\* with { once: true } and is removed as it is called
MouseUp ==
    /\ Live
    /\ listeners.mouseup
    /\ LET s == [_stopDrag(Here) EXCEPT !.listeners.mouseup = FALSE]
       IN  /\ Commit(s)
           /\ lastOp' = Op("mouseup", TRUE, FALSE, "", Absent)
    /\ hist' = [hist EXCEPT !.session = NoSession]
    /\ UNCHANGED <<win, pending, views>>

\* another view of the page sets or removes a localStorage entry; the
\* browser queues a storage event for this window
ExternalWrite ==
    /\ Live
    /\ Len(pending) < MaxPending
    /\ hist.inputs < MaxInputs
    /\ \/ \E v \in Payloads :
            /\ v # localStorage
            /\ localStorage' = v
            /\ pending' = Append(pending, [key |-> "id", newValue |-> v])
       \/ /\ pending' = Append(pending, [key |-> "other", newValue |-> ZeroText])
          /\ UNCHANGED localStorage
    /\ lastOp' = Op("write", FALSE, FALSE, "", Absent)
    /\ hist' = [hist EXCEPT !.inputs = @ + 1]
    /\ UNCHANGED <<inst, element, win, listeners, views>>

\* the oldest queued storage event is dispatched to the window
Storage ==
    /\ Live
    /\ pending # <<>>
    /\ LET e == Head(pending)
           ran == /\ listeners.storage
                  /\ element.draggable # "false"
                  /\ e.key = "id"
                  /\ ~Falsy(e.newValue)
           s == IF listeners.storage THEN _onStorage(Here, win, e) ELSE Here
       IN  /\ Commit(s)
           /\ lastOp' = Op("storage", ran, FALSE, e.key, e.newValue)
           /\ hist' = IF ran /\ listeners.mousemove
                      THEN [hist EXCEPT !.session.pure = FALSE]
                      ELSE hist
    /\ pending' = Tail(pending)
    /\ UNCHANGED <<win, views>>

\* stop() on an enabled instance (on a disabled one it returns at once)
Stop ==
    /\ Live
    /\ inst.enabled
    /\ hist.inputs < MaxInputs
    /\ Commit(stop(Here))
    /\ lastOp' = Op("stop", TRUE, FALSE, "", Absent)
    /\ hist' = [session |-> NoSession, inputs |-> hist.inputs + 1]
    /\ UNCHANGED <<win, pending, views>>

\* start() on a disabled instance (on an enabled one it returns at once)
Start ==
    /\ Live
    /\ ~inst.enabled
    /\ LET s == start(Here, win)
       IN  /\ Commit(s)
           /\ lastOp' = Op("start", TRUE, s.threw, "id", localStorage)
    /\ UNCHANGED <<win, pending, hist, views>>

\* removeListeners() while a listener is attached (with none attached the
\* call changes nothing)
RemoveListeners ==
    /\ Live
    /\ listeners # NoListeners
    /\ Commit(removeListeners(Here))
    /\ lastOp' = Op("removeListeners", TRUE, FALSE, "", Absent)
    /\ hist' = [hist EXCEPT !.session = NoSession]
    /\ UNCHANGED <<win, pending, views>>

\* the window is resized
Resize ==
    /\ Live
    /\ hist.inputs < MaxInputs
    /\ \E v \in Viewports \ {win.viewport} : win' = [win EXCEPT !.viewport = v]
    /\ lastOp' = Op("resize", FALSE, FALSE, "", Absent)
    /\ hist' = [hist EXCEPT !.inputs = @ + 1]
    /\ UNCHANGED <<inst, element, localStorage, listeners, pending, views>>

\* code outside the class sets element.dataset.draggable
SetDraggable ==
    /\ Live
    /\ hist.inputs < MaxInputs
    /\ \E f \in Flags \ {element.draggable} :
         element' = [element EXCEPT !.draggable = f]
    /\ lastOp' = Op("setDraggable", FALSE, FALSE, "", Absent)
    /\ hist' = [hist EXCEPT !.inputs = @ + 1]
    /\ UNCHANGED <<inst, win, localStorage, listeners, pending, views>>

Next ==
    \/ Construct
    \/ MouseDown
    \/ MouseMove
    \/ MouseUp
    \/ ExternalWrite
    \/ Storage
    \/ Stop
    \/ Start
    \/ RemoveListeners
    \/ Resize
    \/ SetDraggable

Spec == Init /\ [][Next]_vars

---------------------------------------------------------------------------
(* Properties                                                              *)

\* the offset recorded in dataset.translate, as JSON.parse reads it
Recorded == JSONparse(element.translate)

\* the legal range of the translation on each axis for the container and
\* the element as they are now: the thresholds of lines 85-86 computed now,
\* moved by the element's untranslated position in the viewport
CurrentMax ==
    LET dim == containerSize(element.position, win)
    IN  [x |-> dim.x - (element.width + 2 * element.border),
         y |-> dim.y - (element.height + 2 * element.border)]

NaturalBox == getBoundingClientRect([element EXCEPT !.style = <<0, 0>>], win)

Clamp(v, lo, hi) == IF v > hi THEN hi ELSE IF v < lo THEN lo ELSE v

ClampedNow(x, y) ==
    <<Clamp(x, -NaturalBox.left, CurrentMax.x - NaturalBox.left),
      Clamp(y, -NaturalBox.top, CurrentMax.y - NaturalBox.top)>>

\* Offset Sync has just run: _updatePos went past its first line, called by
\* the storage handler or by _restorePos in the constructor or in start()
SyncRan ==
    \/ lastOp.op = "storage" /\ lastOp.ran
    \/ /\ lastOp.op \in {"construct", "start"}
       /\ lastOp.ran /\ ~lastOp.threw
       /\ ~Falsy(localStorage)

\* the text that sync was given
SyncText == IF lastOp.op = "storage" THEN lastOp.text ELSE localStorage

WellFormed(text) == text[1] = "json" /\ text[2] # NaN /\ text[3] # NaN

\* the thresholds the instance holds are those of the current geometry
GeometryUnchanged ==
    inst.thresholdX = CurrentMax.x /\ inst.thresholdY = CurrentMax.y

\* the top-left the session computes for the element on each axis:
\* pre-drag pixel offset + running translation
SessionLeft == inst.offsetLeft + inst.translateX
SessionTop == inst.offsetTop + inst.translateY

\* a mousemove of a session made of a press and moves only has just been
\* handled
MovedInSession == lastOp.op = "mousemove" /\ hist.session.pure

C2_SyncReclampsStoredOffset ==
    ( /\ SyncRan
      /\ WellFormed(SyncText)
      /\ CurrentMax.x >= 0 /\ CurrentMax.y >= 0
      /\ ClampedNow(SyncText[2], SyncText[3]) # <<SyncText[2], SyncText[3]>> )
    => /\ Recorded = <<"object", ClampedNow(SyncText[2], SyncText[3])[1],
                                 ClampedNow(SyncText[2], SyncText[3])[2]>>
       /\ element.style = ClampedNow(SyncText[2], SyncText[3])

\* C3: applying Offset Sync with an offset already within the legal range,
\* the geometry being unchanged, records and renders exactly that offset.
C3_SyncOfValidOffsetIsIdentity ==
    ( /\ SyncRan
      /\ WellFormed(SyncText)
      /\ GeometryUnchanged
      /\ ClampedNow(SyncText[2], SyncText[3]) = <<SyncText[2], SyncText[3]>> )
    => /\ Recorded = <<"object", SyncText[2], SyncText[3]>>
       /\ element.style = <<SyncText[2], SyncText[3]>>

\* C4: after stop() on an enabled instance the recorded annotation and the
\* rendered transform are both the zero offset.
C4_StopResetsPosition ==
    lastOp.op = "stop" =>
        /\ Recorded = <<"object", 0, 0>>
        /\ element.style = <<0, 0>>

\* C5: while the instance is disabled, or dataset.draggable is "false", a
\* storage notification for the instance's key changes neither the
\* annotation, the transform nor any instance field.
C5_DisabledIgnoresNotifications ==
    [][ ( /\ lastOp'.op = "storage" /\ lastOp'.key = "id"
          /\ (~inst.enabled \/ element.draggable = "false") )
        => inst' = inst /\ element' = element ]_vars

\* C6: enabling dragging on an element whose position is neither fixed nor
\* absolute throws, both in the constructor with enabled = true and in
\* start(), and never leaves the instance enabled with a press listener.
C6_EnablingUnpositionedThrows ==
    ( /\ lastOp.op \in {"construct", "start"} /\ lastOp.ran
      /\ element.position \notin {"fixed", "absolute"} )
    => /\ lastOp.threw
       /\ ~(inst.constructed = "yes" /\ inst.enabled /\ listeners.mousedown)

\* C7: with store = false no operation of the instance writes a value to
\* the store (an operation leaves the entry as it was or removes it), and
\* after setup (_setProperties, run by the constructor when enabled and by
\* start()) the store holds no value under the id.
C7_NoStoreNeverWrites ==
    [][ ~inst'.store =>
          /\ lastOp'.op # "write" =>
                localStorage' = localStorage \/ localStorage' = Absent
          /\ (lastOp'.op \in {"construct", "start"} /\ lastOp'.ran) =>
                localStorage' = Absent ]_vars

\* setup with store = false has removed a value the store held
C7_Witness ==
    /\ lastOp.op \in {"construct", "start"} /\ lastOp.ran
    /\ ~inst.store
    /\ lastOp.text = Stringify(700, 550)
    /\ localStorage = Absent

\* the translation a session ends with: the last one a move rendered, or
\* the one the press loaded when there was no move
SessionFinal ==
    IF hist.session.rendered # <<NaN, NaN>>
    THEN hist.session.rendered
    ELSE hist.session.start

\* C8: when a session ends by release the annotation holds the last
\* translation the session rendered (the offset it started with when there
\* was no move), and with persistence enabled the store holds the same pair.
C8_ReleaseExternalizes ==
    [][ lastOp'.op = "mouseup" =>
          /\ JSONparse(element'.translate)
                = <<"object", SessionFinal[1], SessionFinal[2]>>
          /\ inst.store =>
                JSONparse(localStorage')
                    = <<"object", SessionFinal[1], SessionFinal[2]>> ]_vars

\* a session that moved the element has been released and stored
C8_Witness ==
    /\ lastOp.op = "mouseup"
    /\ inst.store
    /\ Recorded = <<"object", 350, 275>>
    /\ localStorage = Stringify(350, 275)
    /\ element.style = <<350, 275>>

\* C9 (as stated): once removeListeners() has been called (stop() calls it
\* too), no listener of the instance is ever attached again.
C9_TeardownIsPermanent ==
    [][ (Live /\ listeners = NoListeners) => listeners' = NoListeners ]_vars

\* C9 (amended): removeListeners() detaches the four listeners, and after it
\* no event and no stop() attaches one again; only start() on a disabled
\* instance does.
C9_TeardownUntilStart ==
    [][ /\ lastOp'.op = "removeListeners" => listeners' = NoListeners
        /\ (Live /\ listeners = NoListeners /\ lastOp'.op # "start")
              => listeners' = NoListeners ]_vars

\* a storage event was dispatched after removeListeners() on an enabled
\* instance, and found no listener
C9_Witness ==
    /\ lastOp.op = "storage" /\ lastOp.key = "id"
    /\ inst.enabled
    /\ listeners = NoListeners

\* C10: a press while dataset.draggable is "false" changes no state and
\* attaches neither the move nor the release listener.
C10_PressIgnoredWhenNotDraggable ==
    [][ (lastOp'.op = "mousedown" /\ element.draggable = "false")
        => /\ inst' = inst /\ element' = element
           /\ localStorage' = localStorage
           /\ listeners' = listeners ]_vars

\* a press was dispatched while dataset.draggable was "false"
C10_Witness ==
    /\ lastOp.op = "mousedown" /\ ~lastOp.ran
    /\ element.draggable = "false"
    /\ ~listeners.mousemove /\ ~listeners.mouseup

\* a text that holds a value, but not a well-formed { x: number, y: number }:
\* unparseable text, null, a non-object value, an object missing x or y
Malformed(text) ==
    /\ ~Falsy(text)
    /\ \/ JSONparse(text)[1] # "object"
       \/ JSONparse(text)[2] = NaN
       \/ JSONparse(text)[3] = NaN

\* C11: a malformed serialized offset never makes an operation throw and is
\* replaced by the zero offset: a notification, a restore (in the constructor
\* or in start()) and a press that meet a malformed text leave the instance
\* and the element as the same operation would with the text {"x":0,"y":0},
\* and the press loads the running translation (0, 0).
C11_MalformedTreatedAsZero ==
    [][ /\ ( lastOp'.op = "storage" /\ lastOp'.ran /\ Malformed(lastOp'.text) )
            => LET z == _updatePos(Here, win, ZeroText)
               IN  ~lastOp'.threw /\ inst' = z.inst /\ element' = z.element
        /\ ( lastOp'.op = "start" /\ Malformed(localStorage) )
            => LET z == start([Here EXCEPT !.localStorage = ZeroText], win)
               IN  ~lastOp'.threw /\ inst' = z.inst /\ element' = z.element
        /\ ( lastOp'.op = "construct" /\ lastOp'.ran /\ Malformed(localStorage) )
            => LET z == constructor([Here EXCEPT !.localStorage = ZeroText],
                                    win, inst'.store, TRUE)
               IN  lastOp'.threw = z.threw /\ inst' = z.inst /\ element' = z.element
        /\ ( lastOp'.op = "mousedown" /\ lastOp'.ran
             /\ Malformed(element.translate) )
            => /\ ~lastOp'.threw
               /\ inst'.translateX = 0 /\ inst'.translateY = 0 ]_vars

\* C12: the store entry is changed only by a release with store = true,
\* which sets it to the running translation, and by setup with store =
\* false, which removes it; stop(), removeListeners(), a press, a move, a
\* restore with store = true and the handling of a notification leave it as
\* it was.
C12_StoreWrittenOnlyByReleaseAndSetup ==
    [][ lastOp'.op # "write" =>
          /\ localStorage' # localStorage =>
                \/ /\ lastOp'.op = "mouseup" /\ inst.store
                   /\ localStorage' = Stringify(inst.translateX, inst.translateY)
                \/ /\ lastOp'.op \in {"construct", "start"} /\ lastOp'.ran
                   /\ ~inst'.store
                   /\ localStorage' = Absent
          /\ lastOp'.op \in {"stop", "removeListeners", "mousedown",
                             "mousemove", "storage"}
                => localStorage' = localStorage
          /\ (lastOp'.op \in {"construct", "start"} /\ inst'.store)
                => localStorage' = localStorage ]_vars

\* a notification was handled and recorded the offset another view wrote,
\* and the store still holds what that view wrote
C12_Witness ==
    /\ lastOp.op = "storage" /\ lastOp.ran
    /\ inst.store
    /\ localStorage = lastOp.text
    /\ localStorage = Stringify(350, 275)
    /\ Recorded = <<"object", 350, 275>>

Dragging == listeners.mousemove

\* the Session Pointer State: the last pointer coordinates, the running
\* translation and the pre-drag pixel offset
PointerState(i) ==
    <<i.pos_3, i.pos_4, i.translateX, i.translateY, i.offsetLeft, i.offsetTop>>

\* C14: a notification handled while a drag session is active leaves the
\* last pointer coordinates, the running translation and the pre-drag pixel
\* offset as they were.
C14_SyncKeepsPointerState ==
    [][ (Dragging /\ lastOp'.op = "storage" /\ lastOp'.ran)
        => PointerState(inst') = PointerState(inst) ]_vars

\* C15: while a session is Dragging a press is not processed: it leaves the
\* running translation, the pre-drag offset and the last pointer coordinates
\* of the session in progress, and the attached listeners, as they were.
C15_NoPressWhileDragging ==
    [][ (Dragging /\ lastOp'.op = "mousedown")
        => /\ PointerState(inst') = PointerState(inst)
           /\ listeners' = listeners ]_vars

\* C16: when the threshold of an axis is negative (the container is smaller
\* than the element), after every pointer move of a session the element's
\* top-left on that axis, pre-drag offset + running translation, is the
\* origin edge 0, so the result is the same after any further move.
C16_NegativeThresholdPinsToOrigin ==
    MovedInSession =>
        /\ inst.thresholdX < 0 => SessionLeft = 0
        /\ inst.thresholdY < 0 => SessionTop = 0

\* C17 (as stated): a session leaves Dragging only through a release, which
\* records its running translation in the annotation and, with store = true,
\* in the store.
C17_SessionEndsOnlyByRelease ==
    [][ (Dragging /\ ~listeners'.mousemove) =>
          /\ lastOp'.op = "mouseup"
          /\ JSONparse(element'.translate)
                = <<"object", inst.translateX, inst.translateY>>
          /\ inst.store =>
                JSONparse(localStorage')
                    = <<"object", inst.translateX, inst.translateY>> ]_vars

\* C17 (amended): a session leaves Dragging through a release, which records
\* its running translation in the annotation and, with store = true, in the
\* store, or through stop() or removeListeners(), which detach the move and
\* release listeners and leave the store as it was; a press, a move and a
\* notification do not end it.
C17_SessionEndsByReleaseOrTeardown ==
    [][ (Dragging /\ ~listeners'.mousemove) =>
          /\ lastOp'.op \in {"mouseup", "stop", "removeListeners"}
          /\ ~listeners'.mouseup
          /\ lastOp'.op = "mouseup" =>
                /\ JSONparse(element'.translate)
                      = <<"object", inst.translateX, inst.translateY>>
                /\ inst.store =>
                      JSONparse(localStorage')
                          = <<"object", inst.translateX, inst.translateY>>
          /\ lastOp'.op \in {"stop", "removeListeners"} =>
                localStorage' = localStorage ]_vars

\* removeListeners() has ended a session that had moved the element: the
\* running translation is rendered, the annotation still holds the offset
\* the session started with
C17_Witness ==
    /\ lastOp.op = "removeListeners"
    /\ ~listeners.mousemove /\ ~listeners.mouseup
    /\ inst.pos_3 = 350
    /\ inst.translateX = 350 /\ inst.translateY = 275
    /\ element.style = <<350, 275>>
    /\ Recorded = <<"object", 0, 0>>

\* C18: the move listener is attached only by a press the handler accepts on
\* an enabled instance whose dataset.draggable is not "false", and it is
\* detached when the session ends; after construction, start(), a release,
\* stop() and removeListeners(), and whenever the instance is disabled, no
\* move listener is attached; _drag runs only as that listener, so a pointer
\* move in such a state changes nothing.
C18_MovesHandledOnlyWhileDragging ==
    [][ /\ (~Dragging /\ listeners'.mousemove) =>
              /\ lastOp'.op = "mousedown" /\ lastOp'.ran
              /\ inst.enabled
              /\ element.draggable # "false"
        /\ lastOp'.op \in {"construct", "start", "mouseup", "stop",
                           "removeListeners"}
              => ~listeners'.mousemove
        /\ ~inst'.enabled => ~listeners'.mousemove ]_vars

\* stop() was called during a session that had moved the element; the
\* disabled instance has no move listener
C18_Witness ==
    /\ lastOp.op = "stop"
    /\ ~inst.enabled
    /\ ~listeners.mousemove
    /\ inst.translateX = 350 /\ inst.translateY = 275
    /\ element.style = <<350, 275>>

\* C19: a notification for the instance's key with no payload (the entry was
\* removed) changes neither the annotation, the transform nor any instance
\* field, and leaves the store and the listeners alone.
C19_EmptyNotificationIsNoOp ==
    [][ ( /\ lastOp'.op = "storage" /\ lastOp'.key = "id"
          /\ Falsy(lastOp'.text) )
        => /\ inst' = inst /\ element' = element
           /\ localStorage' = localStorage
           /\ listeners' = listeners ]_vars

\* the listening, draggable instance was notified that the entry under its
\* id was removed, and the element keeps the non-zero offset it had
C19_Witness ==
    /\ lastOp.op = "storage" /\ lastOp.key = "id"
    /\ Falsy(lastOp.text)
    /\ listeners.storage /\ inst.enabled
    /\ element.draggable # "false"
    /\ Recorded[1] = "object" /\ Recorded # <<"object", 0, 0>>
    /\ element.style # <<0, 0>>

---------------------------------------------------------------------------
(* Two views of one page.  Each view is a window of its own with the same  *)
(* geometry, the same element and an instance constructed with the same id,*)
(* store = true and enabled = true; localStorage is shared.  A setItem in  *)
(* one view that changes the entry queues a storage event for the other.   *)

\* presses each view's handler may accept
MaxPresses == 1

Views == {1, 2}

Other(v) == 3 - v

\* the window of every view, and the element as each view's document has it
ViewWindow == [viewport |-> <<800, 600>>, content |-> Content, scroll |-> <<0, 0>>]

ViewElement ==
    [left |-> 0, top |-> 0, width |-> 450, height |-> 325, border |-> 0,
     position |-> "fixed", translate |-> Absent, draggable |-> "undefined",
     style |-> <<0, 0>>]

\* the program state view v's methods run in
ViewHere(v) ==
    [inst |-> views[v].inst, element |-> views[v].element,
     localStorage |-> localStorage, listeners |-> views[v].listeners,
     threw |-> FALSE]

\* view v after a method left the state s
ViewAfter(v, s) ==
    [views[v] EXCEPT !.inst = s.inst, !.element = s.element,
                     !.listeners = s.listeners]

\* new SimpleDraggable("id", dragElement, element, true, true) in a view
\* whose store holds no entry
ViewConstructed ==
    LET s == constructor([inst |-> NoInstance, element |-> ViewElement,
                          localStorage |-> Absent, listeners |-> NoListeners,
                          threw |-> FALSE], ViewWindow, TRUE, TRUE)
    IN  [inst |-> s.inst, element |-> s.element, listeners |-> s.listeners,
         pending |-> <<>>, presses |-> 0]

InitViews ==
    /\ views = [v \in Views |-> ViewConstructed]
    /\ localStorage = Absent
    /\ win = ViewWindow
    /\ inst = NoInstance
    /\ element = ViewElement
    /\ listeners = NoListeners
    /\ pending = <<>>
    /\ lastOp = Op("init", FALSE, FALSE, "", Absent)
    /\ hist = [session |-> NoSession, inputs |-> 0]

\* a primary-button press on the handle of view v
ViewMouseDown ==
    \E v \in Views, p \in Pointers :
        /\ views[v].listeners.mousedown
        /\ views[v].presses < MaxPresses
        /\ LET e == [target |-> "dragElement", button |-> 0,
                     clientX |-> p[1], clientY |-> p[2]]
               s == _mousedown(ViewHere(v), win, e)
           IN  views' = [views EXCEPT ![v] =
                            [ViewAfter(v, s) EXCEPT !.presses = @ + 1]]
        /\ UNCHANGED <<inst, element, win, localStorage, listeners, pending,
                       lastOp, hist>>

\* a pointer move in view v
ViewMouseMove ==
    \E v \in Views, p \in Pointers :
        /\ views[v].listeners.mousemove
        /\ LET e == [clientX |-> p[1], clientY |-> p[2]]
               s == _drag(ViewHere(v), e)
           IN  views' = [views EXCEPT ![v] = ViewAfter(v, s)]
        /\ UNCHANGED <<inst, element, win, localStorage, listeners, pending,
                       lastOp, hist>>

\* a release in view v; when setItem changes the entry the other view gets
\* a storage event
ViewMouseUp ==
    \E v \in Views :
        /\ views[v].listeners.mouseup
        /\ LET s == [_stopDrag(ViewHere(v)) EXCEPT !.listeners.mouseup = FALSE]
               o == Other(v)
           IN  /\ localStorage' = s.localStorage
               /\ views' = [views EXCEPT
                    ![v] = ViewAfter(v, s),
                    ![o].pending =
                        IF s.localStorage # localStorage
                        THEN Append(@, [key |-> "id",
                                        newValue |-> s.localStorage])
                        ELSE @]
        /\ UNCHANGED <<inst, element, win, listeners, pending, lastOp, hist>>

\* the oldest storage event queued for view v is dispatched
ViewStorage ==
    \E v \in Views :
        /\ views[v].pending # <<>>
        /\ LET e == Head(views[v].pending)
               s == IF views[v].listeners.storage
                    THEN _onStorage(ViewHere(v), win, e)
                    ELSE ViewHere(v)
           IN  views' = [views EXCEPT ![v] =
                            [ViewAfter(v, s) EXCEPT !.pending = Tail(@)]]
        /\ UNCHANGED <<inst, element, win, localStorage, listeners, pending,
                       lastOp, hist>>

NextViews ==
    \/ ViewMouseDown
    \/ ViewMouseMove
    \/ ViewMouseUp
    \/ ViewStorage

SpecViews == InitViews /\ [][NextViews]_vars

\* no view is dragging and every storage event has been delivered
Quiescent ==
    \A v \in Views :
        /\ ~views[v].listeners.mousemove
        /\ views[v].pending = <<>>

\* C20: for two enabled views with the same id, store and geometry and
\* store = true, once no drag is in progress and every notification has been
\* delivered, the offset each view records is the one the store holds.
C20_ViewsConverge ==
    (Quiescent /\ ~Falsy(localStorage)) =>
        \A v \in Views :
            JSONparse(views[v].element.translate) = JSONparse(localStorage)

====
